---- MODULE Spec2Model ----
(***************************************************************************)
(* String Analyzer API (src/index.js): an Express application keeping an   *)
(* in-memory Map from the SHA-256 digest of a string to its analysis       *)
(* record, with create / read / delete / list-filter / natural-language    *)
(* filter routes.                                                          *)
(*                                                                         *)
(* src/index.js holds two copies of the server: lines 1-315 and lines      *)
(* 317-661.  The variable impl says which copy is running; every handler   *)
(* is modelled once, with the places where the copies differ decided by    *)
(* impl.                                                                   *)
(*                                                                         *)
(* Representation.  A JavaScript string is a sequence of one-character     *)
(* strings.  A JavaScript value that may be undefined is a sequence of     *)
(* length 0 (undefined) or 1 (the value).                                  *)
(***************************************************************************)
EXTENDS Integers, Sequences, FiniteSets, TLC

VARIABLES
    impl,             \* 1: the server of lines 1-315, 2: the server of lines 317-661
    analyzedStrings,  \* the Map, as its entries [key, val] in insertion order
    now,              \* the clock new Date() reads
    call,             \* the client operation handled last
    res,              \* the HTTP response sent to it
    issued,           \* history: value -> what its last 201 returned, until a delete of it
    calls,            \* the results of analyzeString called directly (SpecAnalyze)
    inflight,         \* client -> its request received and not yet handled, with the Map at its arrival
    answers           \* client -> its request once handled, with the response sent

vars == <<impl, analyzedStrings, now, call, res, issued, calls, inflight, answers>>

(***************************************************************************)
(* Bounds                                                                  *)
(***************************************************************************)
MaxTime == 2
MaxCalls == 2

(***************************************************************************)
(* Characters and strings                                                  *)
(***************************************************************************)
Range(s) == {s[i] : i \in DOMAIN s}

RECURSIVE Reverse(_)
Reverse(s) == IF s = <<>> THEN <<>> ELSE Append(Reverse(Tail(s)), Head(s))

Undefined == <<>>

Some(x) == <<x>>

\* /\s/
Whitespace == {" ", "\t", "\n"}

\* /\d/
Digits == {"0", "1", "2", "3", "4", "5", "6", "7", "8", "9"}

DigitValue == "0" :> 0 @@ "1" :> 1 @@ "2" :> 2 @@ "3" :> 3 @@ "4" :> 4 @@ "5" :> 5 @@ "6" :> 6 @@ "7" :> 7 @@ "8" :> 8 @@ "9" :> 9

UpperToLower == "A" :> "a" @@ "B" :> "b" @@ "C" :> "c" @@ "D" :> "d" @@ "E" :> "e" @@ "F" :> "f" @@ "G" :> "g" @@ "H" :> "h" @@ "I" :> "i" @@ "J" :> "j" @@ "K" :> "k" @@ "L" :> "l" @@ "M" :> "m" @@ "N" :> "n" @@ "O" :> "o" @@ "P" :> "p" @@ "Q" :> "q" @@ "R" :> "r" @@ "S" :> "s" @@ "T" :> "t" @@ "U" :> "u" @@ "V" :> "v" @@ "W" :> "w" @@ "X" :> "x" @@ "Y" :> "y" @@ "Z" :> "z"

\* /\w/
WordChars == DOMAIN UpperToLower \cup Range(UpperToLower) \cup Digits \cup {"_"}

CharCode == "a" :> 97 @@ "b" :> 98 @@ "c" :> 99 @@ "d" :> 100 @@ "e" :> 101 @@ "f" :> 102 @@ "g" :> 103 @@ "h" :> 104 @@ "i" :> 105 @@ "j" :> 106 @@ "k" :> 107 @@ "l" :> 108 @@ "m" :> 109 @@ "n" :> 110 @@ "o" :> 111 @@ "p" :> 112 @@ "q" :> 113 @@ "r" :> 114 @@ "s" :> 115 @@ "t" :> 116 @@ "u" :> 117 @@ "v" :> 118 @@ "w" :> 119 @@ "x" :> 120 @@ "y" :> 121 @@ "z" :> 122 @@ "A" :> 65 @@ "B" :> 66 @@ "C" :> 67 @@ "D" :> 68 @@ "E" :> 69 @@ "F" :> 70 @@ "G" :> 71 @@ "H" :> 72 @@ "I" :> 73 @@ "J" :> 74 @@ "K" :> 75 @@ "L" :> 76 @@ "M" :> 77 @@ "N" :> 78 @@ "O" :> 79 @@ "P" :> 80 @@ "Q" :> 81 @@ "R" :> 82 @@ "S" :> 83 @@ "T" :> 84 @@ "U" :> 85 @@ "V" :> 86 @@ "W" :> 87 @@ "X" :> 88 @@ "Y" :> 89 @@ "Z" :> 90 @@ "0" :> 48 @@ "1" :> 49 @@ "2" :> 50 @@ "3" :> 51 @@ "4" :> 52 @@ "5" :> 53 @@ "6" :> 54 @@ "7" :> 55 @@ "8" :> 56 @@ "9" :> 57 @@ " " :> 32 @@ "-" :> 45 @@ "_" :> 95 @@ "!" :> 33 @@ "." :> 46 @@ "\t" :> 9 @@ "\n" :> 10

\* String.prototype.toLowerCase
RECURSIVE toLowerCase(_)
toLowerCase(s) ==
    IF s = <<>> THEN <<>>
    ELSE <<IF Head(s) \in DOMAIN UpperToLower THEN UpperToLower[Head(s)] ELSE Head(s)>> \o toLowerCase(Tail(s))

\* String.prototype.trim
RECURSIVE trimStart(_)
trimStart(s) == IF s # <<>> /\ Head(s) \in Whitespace THEN trimStart(Tail(s)) ELSE s

trim(s) == Reverse(trimStart(Reverse(trimStart(s))))

\* String.prototype.split(/\s+/): the pieces between the maximal runs of whitespace;
\* cur is the piece being read, inWs whether the last character read was whitespace.
RECURSIVE splitWs(_, _, _)
splitWs(s, cur, inWs) ==
    IF s = <<>> THEN <<cur>>
    ELSE IF Head(s) \in Whitespace
         THEN IF inWs THEN splitWs(Tail(s), cur, TRUE)
              ELSE <<cur>> \o splitWs(Tail(s), <<>>, TRUE)
         ELSE splitWs(Tail(s), Append(cur, Head(s)), FALSE)

\* String.prototype.includes: pat occurs in s at index i (1-based)
OccursAt(s, pat, i) ==
    /\ i + Len(pat) - 1 <= Len(s)
    /\ pat # <<>> => s[i] = pat[1]
    /\ SubSeq(s, i, i + Len(pat) - 1) = pat

includes(s, pat) == \E i \in 1..(Len(s) + 1) : OccursAt(s, pat, i)

(***************************************************************************)
(* generateHash: crypto SHA-256, hex digest.  The digest is modelled by a   *)
(* chained digest over the character codes: like SHA-256 on the strings    *)
(* that occur it is deterministic, total (the empty string has a digest)   *)
(* and free of collisions, and it is not the string itself.                *)
(***************************************************************************)
RECURSIVE chain(_, _)
chain(h, s) == IF s = <<>> THEN <<>>
               ELSE LET h2 == (h * 31 + CharCode[Head(s)]) % 65536
                    IN  <<h2>> \o chain(h2, Tail(s))

generateHash(value) == <<5381>> \o chain(5381, value)

(***************************************************************************)
(* analyzeString(value), called when the clock reads t                      *)
(***************************************************************************)
palindromeOf(value) ==
    LET normalized == SelectSeq(toLowerCase(value), LAMBDA c : c \notin Whitespace)
    IN  normalized = Reverse(normalized)

wordCountOf(value) == Len(SelectSeq(splitWs(trim(value), <<>>, FALSE), LAMBDA w : w # <<>>))

charFrequencyOf(value) == [c \in Range(value) |-> Cardinality({i \in DOMAIN value : value[i] = c})]

propertiesOf(value) ==
    [length |-> Len(value),
     is_palindrome |-> palindromeOf(value),
     unique_characters |-> Cardinality(Range(value)),
     word_count |-> wordCountOf(value),
     sha256_hash |-> generateHash(value),
     character_frequency_map |-> charFrequencyOf(value)]

\* new Date().toISOString(): the timestamp, formatted one-to-one
toISOString(t) == <<"T", t>>

analyzeString(value, t) ==
    IF impl = 1
    THEN [id |-> generateHash(value), value |-> value,
          properties |-> propertiesOf(value),
          created_at |-> toISOString(t)]
    ELSE [id |-> generateHash(value), value |-> value,
          properties |-> [f \in DOMAIN propertiesOf(value) \cup {"created_at"} |->
                             IF f = "created_at" THEN toISOString(t) ELSE propertiesOf(value)[f]]]

\* the created_at of a record, wherever the running copy keeps it
createdAtOf(r) == IF "created_at" \in DOMAIN r THEN r.created_at ELSE r.properties.created_at

(***************************************************************************)
(* Map: has, get, set, delete, values (insertion order)                    *)
(***************************************************************************)
MapHas(m, k) == \E i \in DOMAIN m : m[i].key = k

MapGet(m, k) == m[CHOOSE i \in DOMAIN m : m[i].key = k].val

MapSet(m, k, v) ==
    IF MapHas(m, k)
    THEN [i \in DOMAIN m |-> IF m[i].key = k THEN [key |-> k, val |-> v] ELSE m[i]]
    ELSE Append(m, [key |-> k, val |-> v])

MapDelete(m, k) == SelectSeq(m, LAMBDA e : e.key # k)

MapValues(m) == [i \in DOMAIN m |-> m[i].val]

(***************************************************************************)
(* Requests.  A client operation (call) is sent as an HTTP request: the    *)
(* value of a read or delete travels as the path segment after /strings/   *)
(* (URL-encoded, decoded again by Express into req.params), so the empty   *)
(* string travels as the path /strings/, which Express (non-strict         *)
(* routing) treats as /strings.                                            *)
(***************************************************************************)
NLSegment == <<"f", "i", "l", "t", "e", "r", "-", "b", "y", "-", "n", "a", "t", "u", "r", "a", "l", "-", "l", "a", "n", "g", "u", "a", "g", "e">>

NoQuery == [is_palindrome |-> Undefined, min_length |-> Undefined, max_length |-> Undefined,
            word_count |-> Undefined, contains_character |-> Undefined, query |-> Undefined]

JsUndefined == [type |-> "undefined", val |-> <<>>]

JsString(s) == [type |-> "string", val |-> s]

SegmentOf(v) == IF v = <<>> THEN Undefined ELSE Some(v)

HttpRequest(c) ==
    CASE c.op = "create" -> [method |-> "POST", segment |-> Undefined, query |-> NoQuery, value |-> c.arg]
      [] c.op = "get"    -> [method |-> "GET", segment |-> SegmentOf(c.arg), query |-> NoQuery, value |-> JsUndefined]
      [] c.op = "delete" -> [method |-> "DELETE", segment |-> SegmentOf(c.arg), query |-> NoQuery, value |-> JsUndefined]
      [] c.op = "list"   -> [method |-> "GET", segment |-> Undefined, query |-> c.arg, value |-> JsUndefined]
      [] c.op = "nl"     -> [method |-> "GET", segment |-> Some(NLSegment),
                             query |-> [NoQuery EXCEPT !.query = c.arg], value |-> JsUndefined]

\* The routes in the order app.post / app.get / app.delete register them (the same in
\* both copies); Express runs the first whose method and path match, and answers 404
\* itself when none does.
Route(r) ==
    CASE r.method = "POST" /\ r.segment = Undefined -> "postStrings"
      [] r.method = "GET" /\ r.segment = Some(NLSegment) -> "filterByNaturalLanguage"
      [] r.method = "GET" /\ r.segment # Undefined /\ r.segment # Some(NLSegment) -> "getString"
      [] r.method = "GET" /\ r.segment = Undefined -> "getStrings"
      [] r.method = "DELETE" /\ r.segment # Undefined -> "deleteString"
      [] OTHER -> "notFound"

Reply(status, body, m) == [res |-> [status |-> status, body |-> body], map |-> m]

(***************************************************************************)
(* POST /strings                                                           *)
(***************************************************************************)
postMissingStatus == IF impl = 1 THEN 400 ELSE 404

\* mutant: the key is the digest of the lower-cased value
postKeyLowerCased(value) == generateHash(toLowerCase(value))

postKey(value) == generateHash(value)

\* mutant: the duplicate check is gone
postNeverDuplicate(m, hash) == FALSE

postIsDuplicate(m, hash) == MapHas(m, hash)

postStrings(r, m, t) ==
    LET value == r.value
        hash == postKey(value.val)
        result == analyzeString(value.val, t)
    IN  IF value.type = "undefined"
        THEN Reply(postMissingStatus,
                   [error |-> IF impl = 1 THEN "Missing 'value' field" ELSE "Value field is required"], m)
        ELSE IF value.type # "string"
        THEN Reply(422, [error |-> IF impl = 1 THEN "Value must be a string" ELSE "Unprocessable Content"], m)
        ELSE IF postIsDuplicate(m, hash)
        THEN Reply(409, IF impl = 1
                        THEN [error |-> "Duplicate string", message |-> "This string already exists"]
                        ELSE [error |-> "Conflict", message |-> " String already exists in the system",
                              existing |-> MapGet(m, hash)], m)
        ELSE Reply(201, result, MapSet(m, hash, result))

(***************************************************************************)
(* GET /strings/:string_value and DELETE /strings/:string_value            *)
(***************************************************************************)
NotFoundBody == [error |-> "Not Found", message |-> "String does not exist in the system"]

\* a get that takes the record out of the Map
getStringRemoving(r, m) ==
    LET hash == generateHash(r.segment[1])
    IN  IF ~MapHas(m, hash) THEN Reply(404, NotFoundBody, m)
        ELSE Reply(200, MapGet(m, hash), MapDelete(m, hash))

getString(r, m) ==
    LET hash == generateHash(r.segment[1])
    IN  IF ~MapHas(m, hash) THEN Reply(404, NotFoundBody, m)
        ELSE Reply(200, MapGet(m, hash), m)

deleteString(r, m) ==
    LET hash == generateHash(r.segment[1])
    IN  IF ~MapHas(m, hash) THEN Reply(404, NotFoundBody, m)
        ELSE Reply(204, [message |-> IF impl = 1 THEN "" ELSE "String has been deleted from memory"],
                   MapDelete(m, hash))

\* Express's own answer when no route matches
notFound(r, m) == Reply(404, [error |-> "Cannot", method |-> r.method], m)

(***************************************************************************)
(* GET /strings: validation of the five query parameters                   *)
(***************************************************************************)
NaN == <<>>

RECURSIVE digitPrefix(_)
digitPrefix(s) == IF s # <<>> /\ Head(s) \in Digits THEN <<Head(s)>> \o digitPrefix(Tail(s)) ELSE <<>>

RECURSIVE decimalValue(_)
decimalValue(d) == IF d = <<>> THEN 0 ELSE decimalValue(SubSeq(d, 1, Len(d) - 1)) * 10 + DigitValue[d[Len(d)]]

\* parseInt(s, 10): leading whitespace skipped, an optional sign, then the longest
\* run of digits; NaN when there is none.  What follows the digits is ignored.
parseInt(s) ==
    LET t == trimStart(s)
        signed == t # <<>> /\ Head(t) \in {"+", "-"}
        d == digitPrefix(IF signed THEN Tail(t) ELSE t)
    IN  IF d = <<>> THEN NaN
        ELSE Some(IF signed /\ Head(t) = "-" THEN 0 - decimalValue(d) ELSE decimalValue(d))

\* isNaN(n) || n < 0
intRejected(n) == n = NaN \/ n[1] < 0

NoFilters == [is_palindrome |-> Undefined, min_length |-> Undefined, max_length |-> Undefined,
              word_count |-> Undefined, contains_character |-> Undefined]

S_true == <<"t", "r", "u", "e">>

S_false == <<"f", "a", "l", "s", "e">>

palindromeError(q) == q.is_palindrome # Undefined /\ q.is_palindrome[1] # S_true /\ q.is_palindrome[1] # S_false

minLengthError(q) == q.min_length # Undefined /\ intRejected(parseInt(q.min_length[1]))

maxLengthError(q) == q.max_length # Undefined /\ intRejected(parseInt(q.max_length[1]))

wordCountError(q) == q.word_count # Undefined /\ intRejected(parseInt(q.word_count[1]))

containsError(q) == q.contains_character # Undefined /\ Len(q.contains_character[1]) # 1

\* the filters object after the five per-parameter blocks
validFilters(q) ==
    [is_palindrome |-> IF q.is_palindrome = Undefined \/ palindromeError(q) THEN Undefined
                       ELSE Some(q.is_palindrome[1] = S_true),
     min_length |-> IF q.min_length = Undefined \/ minLengthError(q) THEN Undefined
                    ELSE parseInt(q.min_length[1]),
     max_length |-> IF q.max_length = Undefined \/ maxLengthError(q) THEN Undefined
                    ELSE parseInt(q.max_length[1]),
     word_count |-> IF q.word_count = Undefined \/ wordCountError(q) THEN Undefined
                    ELSE parseInt(q.word_count[1]),
     contains_character |-> IF q.contains_character = Undefined \/ containsError(q) THEN Undefined
                            ELSE q.contains_character]

minMaxConflict(f) ==
    f.min_length # Undefined /\ f.max_length # Undefined /\ f.min_length[1] > f.max_length[1]

\* the errors array: one message per failed check, in the order of the checks
validationErrors(q) ==
    (IF palindromeError(q)
     THEN <<IF impl = 1 THEN "is_palindrome must be \"true\" or \"false\"" ELSE "is_palindrome must be true or false">>
     ELSE <<>>)
    \o (IF minLengthError(q)
        THEN <<IF impl = 1 THEN "min_length must be a non-negative integer" ELSE "Minlength must not be a negative number">>
        ELSE <<>>)
    \o (IF maxLengthError(q)
        THEN <<IF impl = 1 THEN "max_length must be a non-negative integer" ELSE "Maxlength must not be a negative number">>
        ELSE <<>>)
    \o (IF wordCountError(q)
        THEN <<IF impl = 1 THEN "word_count must be a non-negative integer" ELSE "Wordcount must not be a negative number">>
        ELSE <<>>)
    \o (IF containsError(q) THEN <<"contains_character must be a single character">> ELSE <<>>)
    \o (IF minMaxConflict(validFilters(q)) THEN <<"min_length cannot be greater than max_length">> ELSE <<>>)

\* The test that guards the 400 answer.  Lines 1-315: errors.length > 0.  Lines
\* 317-661: errors > 0, an array compared with a number: the array becomes the string
\* of its elements joined by commas and that string a number, 0 for the empty array
\* and NaN for these messages, and NaN > 0 is false.
errorsReported(errors) == IF impl = 1 THEN Len(errors) > 0 ELSE FALSE

(***************************************************************************)
(* GET /strings: the chain of filters                                      *)
(***************************************************************************)
keepPalindrome(item, f) == item.properties.is_palindrome = f.is_palindrome[1]

keepMinLength(item, f) == item.properties.length >= f.min_length[1]

\* mutant: the upper bound is exclusive
keepShorterThanMax(item, f) == item.properties.length < f.max_length[1]

keepMaxLength(item, f) == item.properties.length <= f.max_length[1]

keepWordCount(item, f) == item.properties.word_count = f.word_count[1]

keepContains(item, f) == includes(item.value, f.contains_character[1])

applyFilters(results, f) ==
    LET r1 == IF f.is_palindrome # Undefined THEN SelectSeq(results, LAMBDA item : keepPalindrome(item, f)) ELSE results
        r2 == IF f.min_length # Undefined THEN SelectSeq(r1, LAMBDA item : keepMinLength(item, f)) ELSE r1
        r3 == IF f.max_length # Undefined THEN SelectSeq(r2, LAMBDA item : keepMaxLength(item, f)) ELSE r2
        r4 == IF f.word_count # Undefined THEN SelectSeq(r3, LAMBDA item : keepWordCount(item, f)) ELSE r3
    IN  IF f.contains_character # Undefined THEN SelectSeq(r4, LAMBDA item : keepContains(item, f)) ELSE r4

getStrings(r, m) ==
    LET filters == validFilters(r.query)
        errors == validationErrors(r.query)
        results == applyFilters(MapValues(m), filters)
    IN  IF errorsReported(errors)
        THEN Reply(400, [error |-> "Bad Request", details |-> errors], m)
        ELSE Reply(200, [data |-> results, count |-> Len(results), filters_applied |-> filters], m)

(***************************************************************************)
(* interpretQuery and GET /strings/filter-by-natural-language              *)
(***************************************************************************)
S_palindromic == <<"p", "a", "l", "i", "n", "d", "r", "o", "m", "i", "c">>

S_single_word == <<"s", "i", "n", "g", "l", "e", " ", "w", "o", "r", "d">>

S_one_word == <<"o", "n", "e", " ", "w", "o", "r", "d">>

S_longer_than == <<"l", "o", "n", "g", "e", "r", " ", "t", "h", "a", "n", " ">>

S_containing_the_letter == <<"c", "o", "n", "t", "a", "i", "n", "i", "n", "g", " ", "t", "h", "e", " ", "l", "e", "t", "t", "e", "r", " ">>

\* String.prototype.match(/<literal>(<class>...)/): the indices where the literal is
\* followed by a character of the class; the match is the leftmost of them.
matchesAt(s, literal, class) ==
    {i \in 1..Len(s) : OccursAt(s, literal, i) /\ i + Len(literal) <= Len(s) /\ s[i + Len(literal)] \in class}

Min(S) == CHOOSE x \in S : \A y \in S : x <= y

\* lower.match(/longer than (\d+)/): null, or the captured digits
matchLength(lower) ==
    LET at == matchesAt(lower, S_longer_than, Digits)
    IN  IF at = {} THEN Undefined
        ELSE Some(digitPrefix(SubSeq(lower, Min(at) + Len(S_longer_than), Len(lower))))

\* lower.match(/containing the letter (\w)/): null, or the captured character
matchContains(lower) ==
    LET at == matchesAt(lower, S_containing_the_letter, WordChars)
    IN  IF at = {} THEN Undefined
        ELSE Some(<<lower[Min(at) + Len(S_containing_the_letter)]>>)

\* mutant: "longer than N" admits length N
longerThanToMinSame(n) == n

longerThanToMin(n) == n + 1

queryLower(query) == toLowerCase(query)

Null == <<>>

\* null, or Some(filters)
interpretQuery(query) ==
    LET lower == queryLower(query)
        filters ==
          [is_palindrome |-> IF includes(lower, S_palindromic) THEN Some(TRUE) ELSE Undefined,
           word_count |-> IF includes(lower, S_single_word) \/ includes(lower, S_one_word) THEN Some(1) ELSE Undefined,
           min_length |-> IF matchLength(lower) # Undefined
                          THEN Some(longerThanToMin(parseInt(matchLength(lower)[1])[1])) ELSE Undefined,
           contains_character |-> IF matchContains(lower) # Undefined THEN matchContains(lower) ELSE Undefined]
        keys == {k \in DOMAIN filters : filters[k] # Undefined}
    IN  IF Cardinality(keys) # 0 THEN Some(filters) ELSE Null

\* mutant: the lower bound is exclusive
nlKeepLongerThanMin(item, parsedFilters) == item.properties.length > parsedFilters.min_length[1]

nlKeepMinLength(item, parsedFilters) == item.properties.length >= parsedFilters.min_length[1]

nlKeepContains(item, parsedFilters) == includes(item.value, parsedFilters.contains_character[1])

filterByNaturalLanguage(r, m) ==
    LET query == r.query.query
        parsed == interpretQuery(query[1])
        parsedFilters == parsed[1]
        r0 == MapValues(m)
        r1 == IF parsedFilters.is_palindrome # Undefined
              THEN SelectSeq(r0, LAMBDA item : item.properties.is_palindrome = parsedFilters.is_palindrome[1]) ELSE r0
        r2 == IF parsedFilters.word_count # Undefined
              THEN SelectSeq(r1, LAMBDA item : item.properties.word_count = parsedFilters.word_count[1]) ELSE r1
        r3 == IF parsedFilters.min_length # Undefined
              THEN SelectSeq(r2, LAMBDA item : nlKeepMinLength(item, parsedFilters)) ELSE r2
        results == IF parsedFilters.contains_character # Undefined
                   THEN SelectSeq(r3, LAMBDA item : nlKeepContains(item, parsedFilters)) ELSE r3
    IN  IF query = Undefined \/ query[1] = <<>>
        THEN Reply(400, [error |-> "Query is required"], m)
        ELSE IF parsed = Null
        THEN Reply(400, [error |-> "Unable to parse natural language query"], m)
        ELSE Reply(200, [data |-> results, count |-> Len(results),
                         interpreted_query |-> [original |-> query[1], parsed_filters |-> parsedFilters]], m)

(***************************************************************************)
(* The inputs the behaviours are drawn from                                *)
(***************************************************************************)
S_aa == <<"a", "a">>

S_ab == <<"a", "b">>

S_A_a == <<"A", " ", "a">>

S_Aa == <<"A", "a">>

S_a_b == <<"a", " ", "b">>

S_zz == <<"z", "z">>

S_Z == <<"Z">>

S_maybe == <<"m", "a", "y", "b", "e">>

S_banana == <<"b", "a", "n", "a", "n", "a">>

S_null == <<"n", "u", "l", "l">>

\* the empty string, the string that is also a route segment, and an ordinary one
Values == {<<>>, NLSegment, S_Aa}

FilterValues == {S_aa, S_ab, S_A_a}

NLValues == {S_zz, S_Z, S_a_b}

AllValues == Values \cup FilterValues \cup NLValues

\* req.body.value: absent, a number, null, or a string
Bodies(V) == {JsUndefined, [type |-> "number", val |-> <<"5">>], [type |-> "object", val |-> S_null]}
             \cup {JsString(v) : v \in V}

CreateCalls(V) == {[op |-> "create", arg |-> b] : b \in Bodies(V)}

GetCalls(V) == {[op |-> "get", arg |-> v] : v \in V}

DeleteCalls(V) == {[op |-> "delete", arg |-> v] : v \in V}

ListCalls(Q) == {[op |-> "list", arg |-> q] : q \in Q}

NLCalls(P) == {[op |-> "nl", arg |-> p] : p \in P}

Queries(P, Mn, Mx, W, C) ==
    {[is_palindrome |-> p, min_length |-> mn, max_length |-> mx, word_count |-> w,
      contains_character |-> c, query |-> Undefined] : p \in P, mn \in Mn, mx \in Mx, w \in W, c \in C}

Opt(S) == {Undefined} \cup {Some(s) : s \in S}

SpecQueries == Queries(Opt({S_true}), Opt({<<"-", "1">>}), {Undefined}, {Undefined}, {Undefined})

SpecPhrases == Opt({<<>>, S_banana, S_palindromic})

\* every combination of the raw parameters below in which at most two are present,
\* and the combinations in which all five are and none is the second of its set
RawPalindrome == {S_true, S_false, S_maybe}

RawMin == {<<"2">>, <<"3">>, <<"-", "1">>}

RawMax == {<<"2">>, <<"x">>}

RawWordCount == {<<"1">>, <<"2">>, <<"-", "1">>}

RawContains == {<<"a">>, <<"A">>, <<"a", "b">>}

Present(q) == {k \in DOMAIN q : q[k] # Undefined}

FilterQueries ==
    {q \in Queries(Opt(RawPalindrome), Opt(RawMin), Opt(RawMax), Opt(RawWordCount), Opt(RawContains)) :
        \/ Cardinality(Present(q)) <= 2
        \/ /\ Cardinality(Present(q)) = 5
           /\ q.is_palindrome[1] # S_false /\ q.min_length[1] # <<"3">> /\ q.word_count[1] # <<"2">>
           /\ q.contains_character[1] # <<"A">>}

\* phrases: the pieces alone and in pairs, and some longer ones
Pieces == {S_palindromic, S_one_word, S_longer_than, <<"1">>, S_containing_the_letter, <<"Z">>}

FixedPhrases == {S_banana, <<"S", "i", "n", "g", "l", "e", " ", "W", "o", "r", "d", " ">> \o <<"P", "A", "L", "I", "N", "D", "R", "O", "M", "I", "C">>,
                 S_longer_than \o <<"x", " ">> \o S_longer_than \o <<"1", "0", "a">>,
                 S_containing_the_letter \o <<"!", " ">> \o S_containing_the_letter \o <<"_">>}

Phrases == {<<>>} \cup Pieces \cup {p \o q : p \in Pieces, q \in Pieces} \cup FixedPhrases

\* the connections whose requests may be in flight together
Clients == {"c1", "c2", "c3"}

ConcurrentValues == {S_aa, S_Aa}

(***************************************************************************)
(* Actions: one per route handler                                          *)
(***************************************************************************)
NoCall == [op |-> "none", arg |-> <<>>]

NoResponse == [status |-> 0, body |-> [none |-> TRUE]]

Init ==
    /\ impl \in {1, 2}
    /\ analyzedStrings = <<>>
    /\ now = 0
    /\ call = NoCall
    /\ res = NoResponse
    /\ issued = [v \in Values |-> Undefined]
    /\ calls = <<>>
    /\ inflight = [k \in Clients |-> Undefined]
    /\ answers = [k \in Clients |-> Undefined]

\* the handler's outcome out becomes the response and the Map
Answer(c, t, out) ==
    /\ now' = t
    /\ call' = c
    /\ res' = out.res
    /\ analyzedStrings' = out.map
    /\ issued' = IF c.op = "create" /\ out.res.status = 201 /\ c.arg.val \in DOMAIN issued
                 THEN [issued EXCEPT ![c.arg.val] = Some(out.res.body)]
                 ELSE IF c.op = "delete" /\ c.arg \in DOMAIN issued THEN [issued EXCEPT ![c.arg] = Undefined]
                 ELSE issued
    /\ UNCHANGED <<impl, calls>>

\* a request handled as soon as it is received
Respond(c, t, out) == Answer(c, t, out) /\ UNCHANGED <<inflight, answers>>

PostStrings(C, T) ==
    \E c \in C, t \in T :
        /\ Route(HttpRequest(c)) = "postStrings"
        /\ Respond(c, t, postStrings(HttpRequest(c), analyzedStrings, t))

FilterByNaturalLanguage(C, T) ==
    \E c \in C, t \in T :
        /\ Route(HttpRequest(c)) = "filterByNaturalLanguage"
        /\ Respond(c, t, filterByNaturalLanguage(HttpRequest(c), analyzedStrings))

GetString(C, T) ==
    \E c \in C, t \in T :
        /\ Route(HttpRequest(c)) = "getString"
        /\ Respond(c, t, getString(HttpRequest(c), analyzedStrings))

GetStrings(C, T) ==
    \E c \in C, t \in T :
        /\ Route(HttpRequest(c)) = "getStrings"
        /\ Respond(c, t, getStrings(HttpRequest(c), analyzedStrings))

DeleteString(C, T) ==
    \E c \in C, t \in T :
        /\ Route(HttpRequest(c)) = "deleteString"
        /\ Respond(c, t, deleteString(HttpRequest(c), analyzedStrings))

NotFound(C, T) ==
    \E c \in C, t \in T :
        /\ Route(HttpRequest(c)) = "notFound"
        /\ Respond(c, t, notFound(HttpRequest(c), analyzedStrings))

\* analyzeString called directly, the clock having advanced to t
Analyze ==
    \E v \in AllValues, t \in now..MaxTime :
        /\ Len(calls) < MaxCalls
        /\ calls' = Append(calls, analyzeString(v, t))
        /\ now' = t
        /\ UNCHANGED <<impl, analyzedStrings, call, res, issued, inflight, answers>>

(***************************************************************************)
(* Requests in flight together.  Node runs one callback at a time: a       *)
(* request is received (its body read from the socket) in one turn of the  *)
(* event loop and its handler is called in a later one, other requests     *)
(* being received or handled in between.  The handlers are async functions *)
(* without any await, so a handler called runs to its response in that one *)
(* turn.                                                                   *)
(***************************************************************************)
\* a handler working on the Map as it was when its request arrived
handlerMapAtArrival(current, atArrival) == atArrival

\* the Map a handler works on: the module's one Map as it is when the handler runs,
\* and not as it was when the request arrived
handlerMap(current, atArrival) == current

\* the route handler of request r, run on Map m at time t
handle(r, m, t) ==
    CASE Route(r) = "postStrings" -> postStrings(r, m, t)
      [] Route(r) = "filterByNaturalLanguage" -> filterByNaturalLanguage(r, m)
      [] Route(r) = "getString" -> getString(r, m)
      [] Route(r) = "getStrings" -> getStrings(r, m)
      [] Route(r) = "deleteString" -> deleteString(r, m)
      [] Route(r) = "notFound" -> notFound(r, m)

\* client k's request c is received
Arrive(C) ==
    \E k \in Clients, c \in C :
        /\ inflight[k] = Undefined /\ answers[k] = Undefined
        /\ inflight' = [inflight EXCEPT ![k] = Some([call |-> c, seen |-> analyzedStrings])]
        /\ UNCHANGED <<impl, analyzedStrings, now, call, res, issued, calls, answers>>

\* the handler of client k's request runs, from its first line to its response
requestOf(k) == HttpRequest(inflight[k][1].call)

outcomeOf(k, t) == handle(requestOf(k), handlerMap(analyzedStrings, inflight[k][1].seen), t)

Handle ==
    \E k \in Clients, t \in now..MaxTime :
        /\ inflight[k] # Undefined
        /\ Route(requestOf(k)) # "postStrings" => t = now
        /\ Answer(inflight[k][1].call, t, outcomeOf(k, t))
        /\ inflight' = [inflight EXCEPT ![k] = Undefined]
        /\ answers' = [answers EXCEPT ![k] = Some([call |-> inflight[k][1].call, seen |-> inflight[k][1].seen,
                                                  res |-> res'])]

(***************************************************************************)
(* Specifications                                                          *)
(***************************************************************************)
\* the whole application, any request in any order; the clock is read by POST alone
\* (analyzeString), so now is its last reading and POST may find it advanced
AppCalls == CreateCalls(Values) \cup GetCalls(Values) \cup DeleteCalls(Values)
            \cup ListCalls(SpecQueries) \cup NLCalls(SpecPhrases)

Next ==
    \/ PostStrings(AppCalls, now..MaxTime)
    \/ FilterByNaturalLanguage(AppCalls, {now})
    \/ GetString(AppCalls, {now})
    \/ GetStrings(AppCalls, {now})
    \/ DeleteString(AppCalls, {now})
    \/ NotFound(AppCalls, {now})

Spec == Init /\ [][Next]_vars

\* the structured filter over a changing store
FilterCalls == {c \in CreateCalls(FilterValues) : c.arg.type = "string"} \cup DeleteCalls(FilterValues)
               \cup ListCalls(FilterQueries)

NextFilter ==
    \/ PostStrings(FilterCalls, {now})
    \/ DeleteString(FilterCalls, {now})
    \/ GetStrings(FilterCalls, {now})

SpecFilter == Init /\ [][NextFilter]_vars

\* the natural-language filter over a changing store
QueryCalls == {c \in CreateCalls(NLValues) : c.arg.type = "string"} \cup DeleteCalls(NLValues)
              \cup NLCalls(Opt(Phrases))

NextQuery ==
    \/ PostStrings(QueryCalls, {now})
    \/ DeleteString(QueryCalls, {now})
    \/ FilterByNaturalLanguage(QueryCalls, {now})

SpecQuery == Init /\ [][NextQuery]_vars

\* the integer parameters of the structured filter, each alone and all three alike,
\* over a changing store
ValidateValues == {S_aa, S_A_a}

RawIntegers == {<<"0">>, <<"2">>, <<"1", "2">>, <<"-", "1">>, <<"x">>, <<"2", "x">>, <<"1", ".", "5">>, <<>>}

IntegerParams == {"min_length", "max_length", "word_count"}

ValidateQueries ==
    {[NoQuery EXCEPT ![k] = Some(raw)] : k \in IntegerParams, raw \in RawIntegers}
    \cup {[NoQuery EXCEPT !.min_length = Some(raw), !.max_length = Some(raw), !.word_count = Some(raw)] :
            raw \in RawIntegers}

ValidateCalls == {c \in CreateCalls(ValidateValues) : c.arg.type = "string"} \cup DeleteCalls(ValidateValues)
                 \cup ListCalls(ValidateQueries)

NextValidate ==
    \/ PostStrings(ValidateCalls, {now})
    \/ DeleteString(ValidateCalls, {now})
    \/ GetStrings(ValidateCalls, {now})

SpecValidate == Init /\ [][NextValidate]_vars

\* creates and deletes in flight together, one request per client
ConcurrentCalls == {c \in CreateCalls(ConcurrentValues) : c.arg.type = "string"} \cup DeleteCalls(ConcurrentValues)

NextConcurrent ==
    \/ Arrive(ConcurrentCalls)
    \/ Handle

SpecConcurrent == Init /\ [][NextConcurrent]_vars

\* analyzeString alone
SpecAnalyze == Init /\ [][Analyze]_vars

(***************************************************************************)
(* Claims                                                                  *)
(***************************************************************************)
IsCall(c, op, arg) == c.op = op /\ c.arg = arg

Holds(m, v) == \E i \in DOMAIN m : m[i].val.value = v

Without(m, v) == SelectSeq(m, LAMBDA e : e.val.value # v)

\* C1: a create of a string v whose digest is a key of the store is answered 409 and
\* leaves the store (every record, created_at included) as it was; a create of a v
\* whose digest is absent is answered 201 with a record of v, and the store becomes
\* the old store followed by exactly that record under that digest.
C1_CreateConflictOrInsert ==
    [][\A v \in Values :
          IsCall(call', "create", JsString(v)) =>
              IF \E i \in DOMAIN analyzedStrings : analyzedStrings[i].key = generateHash(v)
              THEN /\ res'.status = 409
                   /\ analyzedStrings' = analyzedStrings
              ELSE /\ res'.status = 201
                   /\ res'.body.value = v
                   /\ analyzedStrings' = analyzedStrings \o <<[key |-> generateHash(v), val |-> res'.body]>>]_vars

\* a create answered 409 later than the first create, the stored created_at being the old one
C1_Witness ==
    /\ call.op = "create" /\ call.arg.type = "string" /\ res.status = 409
    /\ Holds(analyzedStrings, call.arg.val)
    /\ createdAtOf(MapGet(analyzedStrings, generateHash(call.arg.val))) # toISOString(now)

\* C2: every entry (k, r) of the store has k = hash(r.value) = r.id =
\* r.properties.sha256_hash, and no two entries have the same value.
C2_StoreKeyedByContent ==
    /\ \A i \in DOMAIN analyzedStrings :
          LET k == analyzedStrings[i].key
              r == analyzedStrings[i].val
          IN  k = generateHash(r.value) /\ k = r.id /\ k = r.properties.sha256_hash
    /\ \A i, j \in DOMAIN analyzedStrings :
          analyzedStrings[i].val.value = analyzedStrings[j].val.value => i = j

\* every value is stored, after a delete and a re-create, and a filter request was served
C2_Witness ==
    /\ Len(analyzedStrings) = Cardinality(Values)
    /\ createdAtOf(analyzedStrings[1].val) # toISOString(0)
    /\ call.op = "nl" /\ res.status = 200

\* C3: after a successful create of x, delete(x) is answered 204 and removes exactly
\* the record of x; after that delete, get(x) is answered 404, delete(x) is answered
\* 404, and create(x) is answered 201 with a fresh record.
C3_DeleteThenRecreate ==
    [][\A x \in Values :
          /\ (issued[x] # Undefined /\ IsCall(call', "delete", x)) =>
                 (res'.status = 204 /\ analyzedStrings' = Without(analyzedStrings, x))
          /\ (IsCall(call, "delete", x) /\ res.status = 204 /\ IsCall(call', "get", x)) =>
                 res'.status = 404
          /\ (IsCall(call, "delete", x) /\ res.status = 204 /\ IsCall(call', "delete", x)) =>
                 res'.status = 404
          /\ (IsCall(call, "delete", x) /\ res.status = 204 /\ IsCall(call', "create", JsString(x))) =>
                 (res'.status = 201 /\ Holds(analyzedStrings', x))]_vars

\* C4: from a successful create of v until a delete of v, every get(v) is answered
\* with the record that create returned.
C4_GetReturnsCreated ==
    \A v \in Values :
        (IsCall(call, "get", v) /\ issued[v] # Undefined) =>
            (res.status = 200 /\ DOMAIN res.body = DOMAIN issued[v][1] /\ res.body = issued[v][1])

\* ---- the structured filter --------------------------------------------------
IsNatText(s) == s # <<>> /\ \A i \in DOMAIN s : s[i] \in Digits

RECURSIVE NatOf(_)
NatOf(s) == IF s = <<>> THEN 0 ELSE 10 * NatOf(SubSeq(s, 1, Len(s) - 1)) + DigitValue[s[Len(s)]]

NatRuleFails(raw) == raw # Undefined /\ ~IsNatText(raw[1])

\* the validation rules a query fails
FailedRules(q) ==
    {k \in {"is_palindrome"} : q.is_palindrome # Undefined /\ q.is_palindrome[1] \notin {S_true, S_false}}
    \cup {k \in {"min_length", "max_length", "word_count"} : NatRuleFails(q[k])}
    \cup {k \in {"contains_character"} : q.contains_character # Undefined /\ Len(q.contains_character[1]) # 1}
    \cup {k \in {"min_max"} : /\ q.min_length # Undefined /\ ~NatRuleFails(q.min_length)
                              /\ q.max_length # Undefined /\ ~NatRuleFails(q.max_length)
                              /\ NatOf(q.min_length[1]) > NatOf(q.max_length[1])}

\* C5: a list/filter request that fails at least one validation rule is answered 400
\* with one message for every failed rule, and with no result set.
C5_AllValidationErrorsReported ==
    (call.op = "list" /\ FailedRules(call.arg) # {}) =>
        /\ res.status = 400
        /\ Len(res.body.details) = Cardinality(FailedRules(call.arg))
        /\ Cardinality(Range(res.body.details)) = Len(res.body.details)
        /\ "data" \notin DOMAIN res.body

\* the FilterSet of a valid query
FilterSetOf(q) ==
    [is_palindrome |-> IF q.is_palindrome = Undefined THEN Undefined ELSE Some(q.is_palindrome[1] = S_true),
     min_length |-> IF q.min_length = Undefined THEN Undefined ELSE Some(NatOf(q.min_length[1])),
     max_length |-> IF q.max_length = Undefined THEN Undefined ELSE Some(NatOf(q.max_length[1])),
     word_count |-> IF q.word_count = Undefined THEN Undefined ELSE Some(NatOf(q.word_count[1])),
     contains_character |-> q.contains_character]

Satisfies(r, F) ==
    /\ F.is_palindrome = Undefined \/ r.properties.is_palindrome = F.is_palindrome[1]
    /\ F.min_length = Undefined \/ r.properties.length >= F.min_length[1]
    /\ F.max_length = Undefined \/ r.properties.length <= F.max_length[1]
    /\ F.word_count = Undefined \/ r.properties.word_count = F.word_count[1]
    /\ F.contains_character = Undefined \/ \E i \in DOMAIN r.value : r.value[i] = F.contains_character[1][1]

Stored == [i \in DOMAIN analyzedStrings |-> analyzedStrings[i].val]

\* C6: for a valid FilterSet F the list/filter result is exactly the stored records
\* that satisfy every filter present in F, in insertion order, with count their
\* number; with no filter present it is every stored record.
C6_FilterIsConjunction ==
    (call.op = "list" /\ FailedRules(call.arg) = {}) =>
        LET F == FilterSetOf(call.arg)
        IN  /\ res.status = 200
            /\ res.body.filters_applied = F
            /\ res.body.data = SelectSeq(Stored, LAMBDA r : Satisfies(r, F))
            /\ res.body.count = Len(res.body.data)
            /\ F = NoFilters => res.body.data = Stored

\* min_length = max_length = 2 over three stored strings keeps the two of length 2
C6_Witness ==
    /\ call.op = "list" /\ res.status = 200
    /\ call.arg.min_length = Some(<<"2">>) /\ call.arg.max_length = Some(<<"2">>)
    /\ Len(analyzedStrings) = 3 /\ res.body.count = 2

\* ---- the natural-language filter ----------------------------------------------
DigitChar(d) == CHOOSE c \in Digits : DigitValue[c] = d

RECURSIVE DecimalText(_)
DecimalText(n) == IF n < 10 THEN <<DigitChar(n)>> ELSE DecimalText(n \div 10) \o <<DigitChar(n % 10)>>

\* the query string of the structured request that carries the FilterSet F
StructuredQuery(F) ==
    [is_palindrome |-> IF F.is_palindrome = Undefined THEN Undefined
                       ELSE Some(IF F.is_palindrome[1] THEN S_true ELSE S_false),
     min_length |-> IF F.min_length = Undefined THEN Undefined ELSE Some(DecimalText(F.min_length[1])),
     max_length |-> Undefined,
     word_count |-> IF F.word_count = Undefined THEN Undefined ELSE Some(DecimalText(F.word_count[1])),
     contains_character |-> F.contains_character,
     query |-> Undefined]

\* C7: a natural-language request whose phrase is interpreted as the FilterSet F
\* returns the records the structured request with the parameters of F returns on the
\* same store.
C7_NaturalLanguageAsStructured ==
    (call.op = "nl" /\ res.status = 200) =>
        LET F == res.body.interpreted_query.parsed_filters
            structured == getStrings(HttpRequest([op |-> "list", arg |-> StructuredQuery(F)]), analyzedStrings).res
        IN  /\ Some(F) = interpretQuery(call.arg[1])
            /\ structured.status = 200
            /\ structured.body.data = res.body.data
            /\ structured.body.count = res.body.count

\* "longer than 1" over three stored strings keeps the two of length 2 and 3
C7_Witness ==
    /\ call.op = "nl" /\ res.status = 200
    /\ res.body.interpreted_query.parsed_filters.min_length = Some(2)
    /\ Len(analyzedStrings) = 3 /\ res.body.count = 2

LowerChar(c) == IF c \in DOMAIN UpperToLower THEN UpperToLower[c] ELSE c

\* pat (in lower case) stands in p at index i, whatever the case of p
StandsAt(p, pat, i) == i + Len(pat) - 1 <= Len(p) /\ \A k \in 1..Len(pat) : LowerChar(p[i + k - 1]) = pat[k]

Says(p, pat) == \E i \in 1..Len(p) : StandsAt(p, pat, i)

\* where "longer than <N>" and "containing the letter <c>" stand in p
LongerThanAt(p) ==
    {i \in 1..Len(p) : StandsAt(p, S_longer_than, i) /\ i + Len(S_longer_than) <= Len(p)
                       /\ p[i + Len(S_longer_than)] \in Digits}

LetterAt(p) ==
    {i \in 1..Len(p) : StandsAt(p, S_containing_the_letter, i) /\ i + Len(S_containing_the_letter) <= Len(p)
                       /\ p[i + Len(S_containing_the_letter)] \in WordChars}

\* the N of the first "longer than <N>": the whole run of digits
LongerThanN(p) ==
    LET from == Min(LongerThanAt(p)) + Len(S_longer_than)
        to == CHOOSE j \in from..Len(p) :
                  /\ \A k \in from..j : p[k] \in Digits
                  /\ j = Len(p) \/ p[j + 1] \notin Digits
    IN  NatOf(SubSeq(p, from, to))

ExpectedFilters(p) ==
    [is_palindrome |-> IF Says(p, S_palindromic) THEN Some(TRUE) ELSE Undefined,
     word_count |-> IF Says(p, S_single_word) \/ Says(p, S_one_word) THEN Some(1) ELSE Undefined,
     min_length |-> IF LongerThanAt(p) # {} THEN Some(LongerThanN(p) + 1) ELSE Undefined,
     contains_character |-> IF LetterAt(p) # {}
                            THEN Some(<<LowerChar(p[Min(LetterAt(p)) + Len(S_containing_the_letter)])>>)
                            ELSE Undefined]

MatchesNone(p) ==
    /\ ~Says(p, S_palindromic) /\ ~Says(p, S_single_word) /\ ~Says(p, S_one_word)
    /\ LongerThanAt(p) = {} /\ LetterAt(p) = {}

\* C8: interpretQuery(p) is null, and the request answered 400 "Unable to parse
\* natural language query", exactly when p matches none of the four patterns, case
\* ignored; otherwise it is the FilterSet with exactly the fields of the patterns that
\* matched, min_length being N + 1 for "longer than <N>".
C8_InterpretQuery ==
    (call.op = "nl" /\ call.arg # Undefined) =>
        LET p == call.arg[1]
        IN  /\ interpretQuery(p) = Null <=> MatchesNone(p)
            /\ ~MatchesNone(p) =>
                  /\ interpretQuery(p) = Some(ExpectedFilters(p))
                  /\ res.status = 200
                  /\ res.body.interpreted_query.parsed_filters = ExpectedFilters(p)
            /\ (MatchesNone(p) /\ p # <<>>) =>
                  /\ res.status = 400
                  /\ res.body.error = "Unable to parse natural language query"

\* the second "longer than" of the phrase is the one followed by digits: N = 10
C8_Witness ==
    /\ call.op = "nl" /\ res.status = 200
    /\ res.body.interpreted_query.parsed_filters.min_length = Some(11)
    /\ res.body.interpreted_query.parsed_filters.is_palindrome = Undefined

\* ---- analyzeString ------------------------------------------------------------
\* C9: two calls of analyzeString on the same string return the same properties,
\* field for field.
C9_PropertiesDeterministic ==
    \A i, j \in DOMAIN calls :
        calls[i].value = calls[j].value =>
            \A f \in DOMAIN calls[i].properties : calls[i].properties[f] = calls[j].properties[f]

\* ---- the input checks of POST /strings ------------------------------------------
\* C10: a create without a value is answered 400, one whose value is not a string is
\* answered 422, and neither changes the store.
C10_CreateInputRejected ==
    [][(call'.op = "create" /\ call'.arg.type # "string") =>
          /\ res'.status = IF call'.arg.type = "undefined" THEN 400 ELSE 422
          /\ analyzedStrings' = analyzedStrings]_vars

(***************************************************************************)
(* Integer parameters of the structured filter                             *)
(***************************************************************************)
\* the message of an integer parameter's validation error, in either copy of the server
IntegerMessages(k) ==
    CASE k = "min_length" -> {"min_length must be a non-negative integer", "Minlength must not be a negative number"}
      [] k = "max_length" -> {"max_length must be a non-negative integer", "Maxlength must not be a negative number"}
      [] k = "word_count" -> {"word_count must be a non-negative integer", "Wordcount must not be a negative number"}

\* C11: each of min_length, max_length and word_count is accepted into the FilterSet
\* only if its raw text is a base-10 integer >= 0, and then with that integer as its
\* value; for every other raw text the parameter's validation error is reported and
\* the parameter is not put in the FilterSet.
C11_IntegerParameters ==
    call.op = "list" =>
        \A k \in IntegerParams :
            call.arg[k] # Undefined =>
                IF IsNatText(call.arg[k][1])
                THEN res.status = 200 => res.body.filters_applied[k] = Some(NatOf(call.arg[k][1]))
                ELSE /\ res.status = 400
                     /\ \E i \in DOMAIN res.body.details : res.body.details[i] \in IntegerMessages(k)
                     /\ "filters_applied" \notin DOMAIN res.body

\* C12: a list/filter request carrying min_length and max_length, each a base-10
\* integer >= 0, with min_length > max_length, is answered 400 with the message of
\* the min/max conflict and with no result set; with min_length <= max_length that
\* message is not reported.
C12_MinMaxConflict ==
    (/\ call.op = "list"
     /\ call.arg.min_length # Undefined /\ IsNatText(call.arg.min_length[1])
     /\ call.arg.max_length # Undefined /\ IsNatText(call.arg.max_length[1])) =>
        IF NatOf(call.arg.min_length[1]) > NatOf(call.arg.max_length[1])
        THEN /\ res.status = 400
             /\ "min_length cannot be greater than max_length" \in Range(res.body.details)
             /\ "data" \notin DOMAIN res.body
        ELSE res.status = 400 => "min_length cannot be greater than max_length" \notin Range(res.body.details)

(***************************************************************************)
(* Requests in flight together                                             *)
(***************************************************************************)
Answered == {k \in Clients : answers[k] # Undefined}

CreatesOf(v) == {k \in Answered : IsCall(answers[k][1].call, "create", JsString(v))}

DeletesOf(v) == {k \in Answered : IsCall(answers[k][1].call, "delete", v)}

WithStatus(K, status) == {k \in K : answers[k][1].res.status = status}

RecordsOf(v) == {i \in DOMAIN analyzedStrings : analyzedStrings[i].val.value = v}

\* the requests of a and b were both received while v was not stored: neither was
\* handled before the other arrived
Overlapped(a, b, v) == a # b /\ ~Holds(answers[a][1].seen, v) /\ ~Holds(answers[b][1].seen, v)

\* C13: whatever the order in which requests in flight together are received and
\* handled, each handler's existence check and its insert or delete take effect as
\* one step: every create is answered 201 or 409 and every delete 204 or 404, a value
\* is stored exactly when its creates answered 201 are one more than its deletes
\* answered 204, and of two creates of the same new value in flight together (the
\* only requests about that value) one is answered 201 and the other 409, the store
\* holding one record of the value, the one returned with the 201.
C13_HandlersAtomic ==
    \A v \in ConcurrentValues :
        /\ \A k \in CreatesOf(v) : answers[k][1].res.status \in {201, 409}
        /\ \A k \in DeletesOf(v) : answers[k][1].res.status \in {204, 404}
        /\ Cardinality(RecordsOf(v)) = Cardinality(WithStatus(CreatesOf(v), 201))
                                       - Cardinality(WithStatus(DeletesOf(v), 204))
        /\ \A a \in CreatesOf(v), b \in CreatesOf(v) :
               (/\ Overlapped(a, b, v) /\ CreatesOf(v) = {a, b} /\ DeletesOf(v) = {}
                /\ \A k \in Clients : inflight[k] = Undefined) =>
                   /\ Cardinality(WithStatus({a, b}, 201)) = 1
                   /\ Cardinality(WithStatus({a, b}, 409)) = 1
                   /\ Cardinality(RecordsOf(v)) = 1
                   /\ \A k \in WithStatus({a, b}, 201), i \in RecordsOf(v) :
                          analyzedStrings[i].val = answers[k][1].res.body

C13_Witness ==
    \E a \in CreatesOf(S_aa), b \in CreatesOf(S_aa) :
        /\ Overlapped(a, b, S_aa) /\ CreatesOf(S_aa) = {a, b} /\ DeletesOf(S_aa) = {}
        /\ \A k \in Clients : inflight[k] = Undefined
        /\ answers[a][1].res.status = 201 /\ answers[b][1].res.status = 409
        /\ Holds(analyzedStrings, S_aa)

(***************************************************************************)
(* What changes the store                                                  *)
(***************************************************************************)
\* m without its i-th entry
Dropping(m, i) == SubSeq(m, 1, i - 1) \o SubSeq(m, i + 1, Len(m))

\* C14: the store is changed only by a create answered 201, which adds one entry to
\* it, and by a delete answered 204, which removes one entry from it; a get, a
\* list/filter request (valid or not), a natural-language request (parsed or not), a
\* create that is rejected and a delete answered 404 leave every record as it is.
C14_StoreFrame ==
    [][/\ analyzedStrings' # analyzedStrings =>
            \/ /\ call'.op = "create" /\ res'.status = 201
               /\ Len(analyzedStrings') = Len(analyzedStrings) + 1
               /\ SubSeq(analyzedStrings', 1, Len(analyzedStrings)) = analyzedStrings
            \/ /\ call'.op = "delete" /\ res'.status = 204
               /\ \E i \in DOMAIN analyzedStrings : analyzedStrings' = Dropping(analyzedStrings, i)
       /\ (\/ call'.op \in {"get", "list", "nl"}
           \/ call'.op = "create" /\ res'.status # 201
           \/ call'.op = "delete" /\ res'.status # 204) => analyzedStrings' = analyzedStrings]_vars

\* a stored record is still what its create returned after a request that was refused
C14_Witness ==
    /\ \/ call.op = "list" /\ res.status = 400
       \/ call.op = "delete" /\ res.status = 404
       \/ call.op = "create" /\ res.status = 409
       \/ call.op = "nl" /\ res.status = 400
       \/ call.op = "get" /\ res.status = 200
    /\ Len(analyzedStrings) = 2
    /\ issued[S_Aa] # Undefined /\ \E i \in DOMAIN analyzedStrings : analyzedStrings[i].val = issued[S_Aa][1]

====
